---- MODULE Spec2Model ----
(***************************************************************************)
(* Inventory vs Sales DOI dashboard (src/app.py).                          *)
(*                                                                         *)
(* The script is re-run from top to bottom on every interaction.  The      *)
(* state is the two uploaded files, the widget values kept by the session  *)
(* (the number input, the two raw selections) and what the last run        *)
(* produced (merged_df, final_df, the option lists, the custom view).      *)
(*                                                                         *)
(* A string value is spelled out character by character in Spell, so that *)
(* upper-casing, case-insensitive substring search and lexicographic order *)
(* are computed from the characters.  A table is a sequence of records.    *)
(* A date is a day number.  DOI after round(.., 2) is held in hundredths;  *)
(* the quotient it rounds is a Python float, computed bit by bit.          *)
(***************************************************************************)
EXTENDS Integers, Sequences, FiniteSets, TLC

VARIABLES
    status,                 \* how the last run ended:
                            \* "waiting": a file is missing (line 16);
                            \* "ok": it reached the end;
                            \* "raised36", "raised144", "raised152": a widget
                            \* call raised at that line
    Inventory_df, Sales_df, \* the rows of the uploaded files (NoFile: none)
    x,                      \* the value the session keeps for the number
                            \* input (0: none)
    max_value,              \* the max_value of the number input it belongs to
    selected_cities_raw,    \* st.session_state["selected_cities_raw"]
    selected_products_raw,  \* st.session_state["selected_products_raw"]
    merged_df,              \* merged_df after line 78 (DOI in hundredths)
    final_df,               \* final_df after line 87
    available_cities, available_products,
    view,                   \* "info", "by_city", "by_product", "detail";
                            \* "none" when the run did not get there
    grouped                 \* the table of the custom view

vars == <<status, Inventory_df, Sales_df, x, max_value, selected_cities_raw,
          selected_products_raw, merged_df, final_df, available_cities,
          available_products, view, grouped>>

----------------------------------------------------------------------------
(* Characters and strings *)

UpperCase == <<"A","B","C","D","E","F","G","H","I","J","K","L","M",
               "N","O","P","Q","R","S","T","U","V","W","X","Y","Z">>
LowerCase == <<"a","b","c","d","e","f","g","h","i","j","k","l","m",
               "n","o","p","q","r","s","t","u","v","w","x","y","z">>
Digits == <<"0","1","2","3","4","5","6","7","8","9">>

Range(s) == {s[i] : i \in DOMAIN s}

Chars == Range(UpperCase) \cup Range(LowerCase) \cup Range(Digits) \cup {" "}

IndexIn(s, c) == CHOOSE i \in DOMAIN s : s[i] = c

\* The code point of a character (Python compares strings by code point).
ord == [c \in Chars |->
          IF c \in Range(UpperCase) THEN 64 + IndexIn(UpperCase, c)
          ELSE IF c \in Range(LowerCase) THEN 96 + IndexIn(LowerCase, c)
          ELSE IF c \in Range(Digits) THEN 47 + IndexIn(Digits, c)
          ELSE 32]

upper_char == [c \in Chars |->
                 IF c \in Range(LowerCase) THEN UpperCase[IndexIn(LowerCase, c)] ELSE c]

lower_char == [c \in Chars |->
                 IF c \in Range(UpperCase) THEN LowerCase[IndexIn(UpperCase, c)] ELSE c]

\* The characters of every string value that occurs in the tables.
Spell ==
    [ MUMBAI     |-> <<"M","U","M","B","A","I">>,
      Mumbai     |-> <<"M","u","m","b","a","i">>,
      Widget     |-> <<"W","i","d","g","e","t">>,
      Gadget     |-> <<"G","a","d","g","e","t">>,
      SKU1       |-> <<"S","K","U","1">>,
      SKU2       |-> <<"S","K","U","2">>,
      All        |-> <<"A","l","l">>,
      NaN        |-> <<"N","a","N">> ]
    @@ ("Gift Box" :> <<"G","i","f","t"," ","B","o","x">>)

\* The string with the characters cs.
Unspell(cs) == CHOOSE s \in DOMAIN Spell : Spell[s] = cs

\* A missing value in a string column (read_csv reads the text NaN as one).
NaN == "NaN"

\* Series.str.upper(): a missing value stays missing.
str_upper(s) ==
    IF s = NaN THEN NaN ELSE Unspell([i \in DOMAIN Spell[s] |-> upper_char[Spell[s][i]]])

\* The characters of s.lower().
lower_chars(s) == [i \in DOMAIN Spell[s] |-> lower_char[Spell[s][i]]]

\* s < t for Python strings.
StrLess(s, t) ==
    LET a == Spell[s]
        b == Spell[t]
    IN  \E i \in 1..Len(b) :
            /\ \A j \in 1..(i - 1) : j <= Len(a) /\ a[j] = b[j]
            /\ (i > Len(a) \/ ord[a[i]] < ord[b[i]])

\* k1 < k2 for tuples of strings of the same length.
KeyLess(k1, k2) ==
    \E i \in 1..Len(k1) :
        /\ \A j \in 1..(i - 1) : k1[j] = k2[j]
        /\ StrLess(k1[i], k2[i])

\* The characters term occur in the characters s as a contiguous run.
IsSubstring(term, s) ==
    \E off \in 0..(Len(s) - Len(term)) :
        \A k \in 1..Len(term) : s[off + k] = term[k]

----------------------------------------------------------------------------
(* Generic table helpers *)

\* The keys of a group-by, ascending (pandas sorts the group keys).
SortedKeys(S) ==
    [p \in 1..Cardinality(S) |->
        CHOOSE k \in S : Cardinality({o \in S : KeyLess(o, k)}) = p - 1]

\* sorted(...) of a set of strings.
SortedStrings(S) ==
    [p \in 1..Cardinality(S) |->
        CHOOSE s \in S : Cardinality({o \in S : StrLess(o, s)}) = p - 1]

\* The sum of a sequence of numbers (Series.sum()).
SeqSum(ns) ==
    LET S[k \in 0..Len(ns)] == IF k = 0 THEN 0 ELSE S[k - 1] + ns[k]
    IN  S[Len(ns)]

\* The concatenation of a sequence of sequences.
Flatten(ss) ==
    LET F[k \in 0..Len(ss)] == IF k = 0 THEN <<>> ELSE F[k - 1] \o ss[k]
    IN  F[Len(ss)]

----------------------------------------------------------------------------
(* Lines 20-29: inventory aggregation and the item-to-product map *)

InvKey(r) == <<r.City, r.SkuDescription, r.SkuCode>>

\* groupby(['City','SkuDescription','SkuCode'])[[...]].sum().reset_index()
\* The row of the group key: the sums of the two quantities over its rows.
InvGroup(inv, key) ==
    [City |-> key[1], SkuDescription |-> key[2], SkuCode |-> key[3],
     OpenPoQuantity |->
         SeqSum([i \in DOMAIN inv |->
                   IF InvKey(inv[i]) = key THEN inv[i].OpenPoQuantity ELSE 0]),
     WarehouseQtyAvailable |->
         SeqSum([i \in DOMAIN inv |->
                   IF InvKey(inv[i]) = key THEN inv[i].WarehouseQtyAvailable ELSE 0])]

\* The key holds a missing value; groupby (dropna=True) leaves such rows out.
HasNaN(key) == \E i \in DOMAIN key : key[i] = NaN

inventory_agg(inv) ==
    LET keys == SortedKeys({InvKey(inv[i]) : i \in {j \in DOMAIN inv : ~HasNaN(InvKey(inv[j]))}})
    IN  [g \in DOMAIN keys |-> InvGroup(inv, keys[g])]

\* set_index('SkuCode')['SkuDescription'].to_dict(), then Series.map: a code
\* listed more than once keeps the description of its last row; a code that
\* is not listed maps to NaN.
item_to_product_map(agg, code) ==
    LET hits == {i \in DOMAIN agg : agg[i].SkuCode = code}
    IN  IF hits = {} THEN NaN
        ELSE agg[CHOOSE i \in hits : \A j \in hits : j <= i].SkuDescription

\* Sales_df with the PRODUCT_NAME column added (line 29).
WithProductName(sales, agg) ==
    [i \in DOMAIN sales |->
       [ORDERED_DATE |-> sales[i].ORDERED_DATE, CITY |-> sales[i].CITY,
        ITEM_CODE |-> sales[i].ITEM_CODE, UNITS_SOLD |-> sales[i].UNITS_SOLD,
        PRODUCT_NAME |-> item_to_product_map(agg, sales[i].ITEM_CODE)]]

----------------------------------------------------------------------------
(* Lines 34-40: the window *)

\* Sales_df['ORDERED_DATE'].nunique()
unique_days(sales) == Cardinality({sales[i].ORDERED_DATE : i \in DOMAIN sales})

\* drop_duplicates().sort_values().tail(n): the n latest distinct dates.
recent_dates(sales, n) ==
    LET D == {sales[i].ORDERED_DATE : i \in DOMAIN sales}
    IN  {d \in D : Cardinality({e \in D : e > d}) < n}

\* A faulty variant: as many of the last rows of the file as there are dates, instead
\* of the rows of these dates.
filtered_df_LastRows(sales, dates) ==
    SubSeq(sales, Len(sales) - Cardinality(dates) + 1, Len(sales))

\* Sales_df[Sales_df['ORDERED_DATE'].isin(recent_dates)]
filtered_df(sales, dates) == SelectSeq(sales, LAMBDA r : r.ORDERED_DATE \in dates)

----------------------------------------------------------------------------
(* Lines 42-48: sales aggregation, then upper-casing of CITY *)

SalesKey(r) == <<r.CITY, r.PRODUCT_NAME, r.ITEM_CODE>>

\* groupby(['CITY','PRODUCT_NAME','ITEM_CODE'])['UNITS_SOLD'].sum(): rows
\* with a NaN in the key are dropped; CITY is upper-cased after the grouping, so two
\* groups may end with the same key.
\* The row of the group key: the sum of the units of its rows, and the city
\* in upper case.
SalesGroup(fdf, key) ==
    [CITY |-> str_upper(key[1]), PRODUCT_NAME |-> key[2], ITEM_CODE |-> key[3],
     UNITS_SOLD |->
         SeqSum([i \in DOMAIN fdf |->
                   IF SalesKey(fdf[i]) = key THEN fdf[i].UNITS_SOLD ELSE 0])]

sales_filtered_grouped_df(fdf) ==
    LET keys == SortedKeys({SalesKey(fdf[i]) : i \in {j \in DOMAIN fdf : ~HasNaN(SalesKey(fdf[j]))}})
    IN  [g \in DOMAIN keys |-> SalesGroup(fdf, keys[g])]

----------------------------------------------------------------------------
(* Lines 50-71: rename, left merge, fill *)

inventory_renamed(agg) ==
    [i \in DOMAIN agg |->
       [CITY |-> agg[i].City, ITEM_CODE |-> agg[i].SkuCode,
        PRODUCT_NAME |-> agg[i].SkuDescription,
        OPEN_PO_QUANTITY |-> agg[i].OpenPoQuantity,
        WAREHOUSE_QTY |-> agg[i].WarehouseQtyAvailable]]

MergeKey(r) == <<r.CITY, r.ITEM_CODE, r.PRODUCT_NAME>>

\* One inventory row with the units of one sales row.
Joined(l, units) ==
    [CITY |-> l.CITY, ITEM_CODE |-> l.ITEM_CODE, PRODUCT_NAME |-> l.PRODUCT_NAME,
     OPEN_PO_QUANTITY |-> l.OPEN_PO_QUANTITY, WAREHOUSE_QTY |-> l.WAREHOUSE_QTY,
     UNITS_SOLD |-> units]

\* The sales rows that match the inventory row l, in order.
Matches(l, right) == SelectSeq(right, LAMBDA s : MergeKey(s) = MergeKey(l))

\* pd.merge(left, right, on=[CITY, ITEM_CODE, PRODUCT_NAME], how='left') and
\* fillna(0) (lines 61-71): an inventory row gives one row per matching
\* sales row, and one row with 0 units when there is none.
left_merge(left, right) ==
    Flatten([i \in DOMAIN left |->
        IF Matches(left[i], right) = <<>>
        THEN <<Joined(left[i], 0)>>
        ELSE [j \in DOMAIN Matches(left[i], right) |->
                Joined(left[i], Matches(left[i], right)[j].UNITS_SOLD)]])

----------------------------------------------------------------------------
(* Lines 73-78, 86: the metric *)

\* The quotient WAREHOUSE_QTY / DAILY_SALES is a Python float.  A float above
\* 0 is <<m, e>> with 2^52 <= m < 2^53, the value m * 2^e; m is held in two
\* limbs <<hi, lo>>, the value hi * Limb + lo.
Limb == 2^27

Wide == Nat \X Nat

WideLess(a, b) == a[1] < b[1] \/ (a[1] = b[1] /\ a[2] < b[2])

WideDouble(a) == <<2 * a[1] + (2 * a[2]) \div Limb, (2 * a[2]) % Limb>>

\* a - b for a >= b.
WideSub(a, b) ==
    IF a[2] >= b[2] THEN <<a[1] - b[1], a[2] - b[2]>>
    ELSE <<a[1] - b[1] - 1, a[2] + Limb - b[2]>>

WideSucc(a) == IF a[2] + 1 = Limb THEN <<a[1] + 1, 0>> ELSE <<a[1], a[2] + 1>>

\* Bit i of a (bit 0 is the lowest).
Bit(a, i) ==
    IF i < 27 THEN (a[2] \div 2^i) % 2
    ELSE IF i < 54 THEN (a[1] \div 2^(i - 27)) % 2
    ELSE 0

\* <<a, s>> with a below 2^52 becomes <<2a, s + 1>>.
NormStep ==
    [t \in Wide \X Nat |->
        IF t[1][1] >= 2^25 THEN t ELSE <<WideDouble(t[1]), t[2] + 1>>]

\* a > 0 shifted left until 2^52 <= a, with the number of shifts.
Normalize ==
    [a \in Wide |->
        LET N[k \in 0..53] == IF k = 0 THEN <<a, 0>> ELSE NormStep[N[k - 1]]
        IN  N[53]]

\* The float of the integer k, 0 < k < 2^53 (exact).
float_of_int ==
    [k \in Nat |-> [t \in Wide \X Nat |-> <<t[1], 0 - t[2]>>][Normalize[<<k \div Limb, k % Limb>>]]]

\* One bit of the long division of r by d (r < 2d): <<m, r, d>> is the
\* quotient so far, the remainder and the divisor.
DivStep ==
    [s \in Wide \X Wide \X Wide |->
        IF WideLess(s[2], s[3])
        THEN <<WideDouble(s[1]), WideDouble(s[2]), s[3]>>
        ELSE <<WideSucc(WideDouble(s[1])), WideDouble(WideSub(s[2], s[3])), s[3]>>]

\* The first 53 bits of r / d and twice the remainder.
DivBits ==
    [s \in Wide \X Wide \X Wide |->
        LET D[k \in 0..53] == IF k = 0 THEN s ELSE DivStep[D[k - 1]]
        IN  D[53]]

\* The 53 quotient bits rounded to nearest, ties to even: <<<<m, 2r, d>>, e>>.
RoundQuotient ==
    [t \in (Wide \X Wide \X Wide) \X Int |->
        IF ~(\/ WideLess(t[1][3], t[1][2])
             \/ t[1][2] = t[1][3] /\ t[1][1][2] % 2 = 1)
        THEN <<t[1][1], t[2]>>
        ELSE IF WideSucc(t[1][1]) = <<2^26, 0>> THEN <<<<2^25, 0>>, t[2] + 1>>
        ELSE <<WideSucc(t[1][1]), t[2]>>]

\* a / b for two floats above 0: the quotient, correctly rounded.
float_truediv ==
    [ab \in (Wide \X Int) \X (Wide \X Int) |->
        IF WideLess(ab[1][1], ab[2][1])
        THEN RoundQuotient[<<DivBits[<<<<0, 0>>, WideDouble(ab[1][1]), ab[2][1]>>],
                             ab[1][2] - ab[2][2] - 53>>]
        ELSE RoundQuotient[<<DivBits[<<<<0, 0>>, ab[1][1], ab[2][1]>>],
                             ab[1][2] - ab[2][2] - 52>>]]

\* One more bit of the fraction, from the lowest up: <<n, g, s>> holds the
\* hundredths so far, the half bit below them and whether a bit below that
\* one is set.
RoundStep ==
    [t \in (Nat \X Nat \X Nat) \X {0, 1} |->
        << (t[1][1] + 100 * t[2]) \div 2,
           (t[1][1] + 100 * t[2]) % 2,
           IF t[1][2] = 1 \/ t[1][3] = 1 THEN 1 ELSE 0 >>]

\* The integer part of m * 2^(-k), k > 0.
IntegerPart(m, k) ==
    IF k >= 53 THEN 0
    ELSE IF k >= 27 THEN m[1] \div 2^(k - 27)
    ELSE m[1] * 2^(27 - k) + m[2] \div 2^k

\* <<<<n, g, s>>, i>>: 100 * i + n hundredths, rounded on the bits below, a
\* tie to the even hundredth.
Hundredths ==
    [t \in (Nat \X Nat \X Nat) \X Nat |->
        IF t[1][2] = 1 /\ t[1][3] = 1 THEN 100 * t[2] + t[1][1] + 1
        ELSE IF t[1][2] = 1 THEN 100 * t[2] + t[1][1] + ((100 * t[2] + t[1][1]) % 2)
        ELSE 100 * t[2] + t[1][1]]

\* round(f, 2) of a float f = <<m, e>>, 0 < f < 2^25, in hundredths: the
\* binary value of f decides, as in Python.
float_round2 ==
    [f \in Wide \X Int |->
        LET R[i \in 0..(0 - f[2])] ==
                IF i = 0 THEN <<0, 0, 0>>
                ELSE RoundStep[<<R[i - 1], Bit(f[1], i - 1)>>]
        IN  Hundredths[<<R[0 - f[2]], IntegerPart(f[1], 0 - f[2])>>]]

\* The exact quotient num / den lies on the boundary of two hundredths.
IsTie(num, den) == (200 * num) % den = 0 /\ ((200 * num) \div den) % 2 = 1

\* The exact quotient num / den rounded to hundredths (not at a tie).
NearestHundredth(num, den) ==
    IF 2 * ((100 * num) % den) > den THEN (100 * num) \div den + 1
    ELSE (100 * num) \div den

\* round(warehouse_qty / (units_sold / n), 2) in hundredths, units_sold > 0.
\* The float quotient is within 2^-52 of the exact one, w * n / u, and an
\* exact quotient that is not a tie is at least 1 / (200 * w * n) of itself
\* away from every tie: the float rounds as the exact quotient does.  At a
\* tie the float decides.
Round2(warehouse_qty, units_sold, n) ==
    IF warehouse_qty = 0 THEN 0
    ELSE IF IsTie(warehouse_qty * n, units_sold)
    THEN float_round2[float_truediv[<<float_of_int[warehouse_qty],
                                      float_truediv[<<float_of_int[units_sold],
                                                      float_of_int[n]>>]>>]]
    ELSE NearestHundredth(warehouse_qty * n, units_sold)

\* A faulty variant: the zero guard dropped; the division by zero gives inf, held
\* here as a value above every quotient.
DOI_NoGuard(warehouse_qty, units_sold, n) ==
    IF units_sold > 0 /\ n > 0 THEN Round2(warehouse_qty, units_sold, n) ELSE 100000000

\* round(WAREHOUSE_QTY / DAILY_SALES, 2) if DAILY_SALES > 0 else 0, with
\* DAILY_SALES = UNITS_SOLD / n; in hundredths.
DOI(warehouse_qty, units_sold, n) ==
    IF units_sold > 0 /\ n > 0 THEN Round2(warehouse_qty, units_sold, n) ELSE 0

\* np.floor of a value held in hundredths.
Floor(hundredths) == hundredths \div 100

\* A row with its DOI column set.
WithColumnDOI(r, doi) ==
    [CITY |-> r.CITY, ITEM_CODE |-> r.ITEM_CODE, PRODUCT_NAME |-> r.PRODUCT_NAME,
     UNITS_SOLD |-> r.UNITS_SOLD, WAREHOUSE_QTY |-> r.WAREHOUSE_QTY,
     OPEN_PO_QUANTITY |-> r.OPEN_PO_QUANTITY, DOI |-> doi]

\* Lines 74-78: the DOI column of merged_df.
WithDOI(m, n) ==
    [i \in DOMAIN m |-> WithColumnDOI(m[i], DOI(m[i].WAREHOUSE_QTY, m[i].UNITS_SOLD, n))]

----------------------------------------------------------------------------
(* Lines 80-87: exclusion filter, final table *)

gift == <<"g","i","f","t">>
celebration == <<"c","e","l","e","b","r","a","t","i","o","n">>
sample == <<"s","a","m","p","l","e">>

\* A faulty variant: the pattern matched with the case of the letters.
Excluded_CaseSensitive(name) ==
    /\ name # NaN
    /\ \E term \in {gift, celebration, sample} : IsSubstring(term, Spell[name])

\* str.contains(r'gift|celebration|sample', case=False, na=False)
Excluded(name) ==
    /\ name # NaN
    /\ \E term \in {gift, celebration, sample} : IsSubstring(term, lower_chars(name))

\* Line 81: the rows whose product name is not excluded.
ExclusionFilter(df) == SelectSeq(df, LAMBDA r : ~Excluded(r.PRODUCT_NAME))

\* Line 86: np.floor of the DOI column.
FloorDOI(df) == [i \in DOMAIN df |-> WithColumnDOI(df[i], Floor(df[i].DOI))]

\* Row a sorts strictly before row b by ['CITY','DOI'], ascending=[True, False].
FinalBefore(a, b) ==
    \/ StrLess(a.CITY, b.CITY)
    \/ a.CITY = b.CITY /\ a.DOI > b.DOI

\* Line 87: sort_values; rows that compare equal keep their order.
SortFinal(df) ==
    [p \in DOMAIN df |->
        df[CHOOSE i \in DOMAIN df :
              Cardinality({j \in DOMAIN df :
                  \/ FinalBefore(df[j], df[i])
                  \/ ~FinalBefore(df[i], df[j]) /\ j < i}) = p - 1]]

----------------------------------------------------------------------------
(* Lines 114-205: the custom DOI view *)

\* The "All" entry put in front of both option lists.
All == "All"

Cities(fdf) == {fdf[i].CITY : i \in DOMAIN fdf}

Products(fdf) == {fdf[i].PRODUCT_NAME : i \in DOMAIN fdf}

\* A faulty variant: a selection of "All" is not told from a selection of products.
AvailableCities_NoAll(fdf, products_raw) ==
    IF products_raw # {}
    THEN SortedStrings({fdf[i].CITY : i \in {j \in DOMAIN fdf : fdf[j].PRODUCT_NAME \in products_raw}})
    ELSE SortedStrings(Cities(fdf))

\* Lines 128-131: the city options depend on the selected products.
AvailableCities(fdf, products_raw) ==
    IF products_raw # {} /\ All \notin products_raw
    THEN SortedStrings({fdf[i].CITY : i \in {j \in DOMAIN fdf : fdf[j].PRODUCT_NAME \in products_raw}})
    ELSE SortedStrings(Cities(fdf))

\* Lines 134-137: the product options depend on the selected cities.
AvailableProducts(fdf, cities_raw) ==
    IF cities_raw # {} /\ All \notin cities_raw
    THEN SortedStrings({fdf[i].PRODUCT_NAME : i \in {j \in DOMAIN fdf : fdf[j].CITY \in cities_raw}})
    ELSE SortedStrings(Products(fdf))

\* Lines 160-161: "All" or nothing selected stands for every value
\* (all_cities and all_products of lines 119-120, as sets).
selected_cities(fdf, cities_raw) ==
    IF All \in cities_raw \/ cities_raw = {} THEN Cities(fdf) ELSE cities_raw

selected_products(fdf, products_raw) ==
    IF All \in products_raw \/ products_raw = {} THEN Products(fdf) ELSE products_raw

\* Lines 164-166: the rows of final_df that pass both selections.
SlicerRows(fdf, cities, products) ==
    SelectSeq(fdf, LAMBDA r : r.CITY \in cities /\ r.PRODUCT_NAME \in products)

\* Lines 173-177: DOI recalculated from each row (in hundredths).
Recalculated(df, n) ==
    [i \in DOMAIN df |-> WithColumnDOI(df[i], DOI(df[i].WAREHOUSE_QTY, df[i].UNITS_SOLD, n))]

\* The sum of a column over the rows of df in the group of key.
CitySum(df, key, col) ==
    SeqSum([i \in DOMAIN df |-> IF df[i].CITY = key THEN df[i][col] ELSE 0])

ProductSum(df, key, col) ==
    SeqSum([i \in DOMAIN df |-> IF df[i].PRODUCT_NAME = key THEN df[i][col] ELSE 0])

\* A faulty variant: the DOI of a group taken as the sum of its rows' DOIs.
GroupByCity_SumDOI(df, n) ==
    LET keys == SortedStrings(Cities(df))
    IN  [g \in DOMAIN keys |->
           [CITY |-> keys[g],
            UNITS_SOLD |-> CitySum(df, keys[g], "UNITS_SOLD"),
            WAREHOUSE_QTY |-> CitySum(df, keys[g], "WAREHOUSE_QTY"),
            OPEN_PO_QUANTITY |-> CitySum(df, keys[g], "OPEN_PO_QUANTITY"),
            DOI |-> Floor(CitySum(df, keys[g], "DOI"))]]

\* Lines 181-187: groupby('CITY')[[...]].sum(), the metric recomputed from the
\* sums and floored.
GroupByCity(df, n) ==
    LET keys == SortedStrings(Cities(df))
    IN  [g \in DOMAIN keys |->
           [CITY |-> keys[g],
            UNITS_SOLD |-> CitySum(df, keys[g], "UNITS_SOLD"),
            WAREHOUSE_QTY |-> CitySum(df, keys[g], "WAREHOUSE_QTY"),
            OPEN_PO_QUANTITY |-> CitySum(df, keys[g], "OPEN_PO_QUANTITY"),
            DOI |-> Floor(DOI(CitySum(df, keys[g], "WAREHOUSE_QTY"),
                              CitySum(df, keys[g], "UNITS_SOLD"), n))]]

\* Lines 192-198: the same by PRODUCT_NAME.
GroupByProduct(df, n) ==
    LET keys == SortedStrings(Products(df))
    IN  [g \in DOMAIN keys |->
           [PRODUCT_NAME |-> keys[g],
            UNITS_SOLD |-> ProductSum(df, keys[g], "UNITS_SOLD"),
            WAREHOUSE_QTY |-> ProductSum(df, keys[g], "WAREHOUSE_QTY"),
            OPEN_PO_QUANTITY |-> ProductSum(df, keys[g], "OPEN_PO_QUANTITY"),
            DOI |-> Floor(DOI(ProductSum(df, keys[g], "WAREHOUSE_QTY"),
                              ProductSum(df, keys[g], "UNITS_SOLD"), n))]]

\* Lines 203-204: the detail rows, DOI floored.
Detail(df) == FloorDOI(df)

\* Lines 169-205: which of the four outputs is shown.
View(cities_raw, products_raw) ==
    IF cities_raw = {} /\ products_raw = {} THEN "info"
    ELSE IF cities_raw # {} /\ products_raw = {} THEN "by_city"
    ELSE IF products_raw # {} /\ cities_raw = {} THEN "by_product"
    ELSE "detail"

\* The table shown for the view v (none with the info message); df holds the
\* recalculated rows.
Grouped(v, df, n) ==
    IF v = "info" THEN <<>>
    ELSE IF v = "by_city" THEN GroupByCity(df, n)
    ELSE IF v = "by_product" THEN GroupByProduct(df, n)
    ELSE Detail(df)

----------------------------------------------------------------------------
(* The inputs *)

MUMBAI == "MUMBAI"
Mumbai == "Mumbai"
Widget == "Widget"
Gadget == "Gadget"
GiftBox == "Gift Box"
SKU1 == "SKU1"
SKU2 == "SKU2"

\* value=7 of st.number_input.
DefaultDays == 7

\* At most this many rows in the inventory file.
MaxInv == 2

\* At most this many sales rows besides the daily ones.
MaxExtra == 1

Inv(c, p, k, o, w) ==
    [City |-> c, SkuDescription |-> p, SkuCode |-> k,
     OpenPoQuantity |-> o, WarehouseQtyAvailable |-> w]

Sale(d, c, k, u) == [ORDERED_DATE |-> d, CITY |-> c, ITEM_CODE |-> k, UNITS_SOLD |-> u]

\* The rows an inventory file is made of.
InventoryRows ==
    << Inv(MUMBAI, Widget, SKU1, 10, 100),
       Inv(MUMBAI, Widget, SKU1, 5, 899),
       Inv(Mumbai, Widget, SKU1, 10, 100),
       Inv(MUMBAI, GiftBox, SKU2, 0, 50),
       Inv(MUMBAI, Gadget, SKU2, 7, 57) >>

\* A sales file holds one row of 10 units a day for (Mumbai, SKU1) ...
History(h) == [d \in 1..h |-> Sale(d, Mumbai, SKU1, 10)]

\* ... over fewer days than the default number of days ...
ShortHistory == History(DefaultDays - 4)

\* ... or over as many, followed by some of these rows, of the last two days.
ExtraRows ==
    << Sale(DefaultDays, MUMBAI, SKU1, 5),
       Sale(DefaultDays - 1, MUMBAI, SKU2, 200) >>

\* The rows of cands at the positions I, in file order.
Pick(cands, I) ==
    LET F[k \in 0..Len(cands)] ==
            IF k = 0 THEN <<>>
            ELSE IF k \in I THEN F[k - 1] \o <<cands[k]>> ELSE F[k - 1]
    IN  F[Len(cands)]

\* An inventory file holds at least one row.
InventoryFiles ==
    {Pick(InventoryRows, I) :
        I \in {J \in SUBSET DOMAIN InventoryRows : J # {} /\ Cardinality(J) <= MaxInv}}

SalesFiles ==
    {ShortHistory} \cup
    {History(DefaultDays) \o Pick(ExtraRows, I) :
        I \in {J \in SUBSET DOMAIN ExtraRows : Cardinality(J) <= MaxExtra}}

\* The numbers of days the user can set: min_value .. max_value (line 36).
DayChoices(days) == 1..days

----------------------------------------------------------------------------
(* The session *)

\* An uploader that holds no file (lines 13-14 return None).
NoFile == <<>>

\* st.number_input(min_value=1, max_value=unique_days, value=v): a value
\* outside [min_value, max_value] raises and the run stops at line 36.
NumberInputRaises(v, max_value_) == v < 1 \/ v > max_value_

\* What st.number_input returns in a run that the user did not start by
\* setting it: the value the session keeps for this widget, which is
\* identified by its label and arguments (both name unique_days), and the
\* default for a widget the session does not know.
NumberInputValue(days) == IF x # 0 /\ max_value = days THEN x ELSE DefaultDays

\* st.multiselect(options=options, default=default): a default value that is
\* not among the options raises.
MultiselectRaises(default, options) == ~(default \subseteq Range(options))

\* The script's guard (line 16) is false: nothing runs, and the session
\* drops the values of the widgets the run did not show.
Waiting ==
    /\ status' = "waiting"
    /\ x' = 0
    /\ max_value' = 0
    /\ selected_cities_raw' = {}
    /\ selected_products_raw' = {}
    /\ merged_df' = <<>>
    /\ final_df' = <<>>
    /\ available_cities' = <<>>
    /\ available_products' = <<>>
    /\ view' = "none"
    /\ grouped' = <<>>

\* The tables lines 17-87 make of the files inv and sales with n in the
\* number input; each bound name is the script's variable.
Pipeline(inv, sales, n) ==
    LET agg == inventory_agg(inv)
        sdf == WithProductName(sales, agg)
        fdf == filtered_df(sdf, recent_dates(sdf, n))
        mdf == WithDOI(left_merge(inventory_renamed(agg), sales_filtered_grouped_df(fdf)), n)
    IN  [merged_df |-> mdf, final_df |-> SortFinal(FloorDOI(ExclusionFilter(mdf)))]

\* Pipeline for every pair of files and every number of days of the sales
\* file; @@ makes each function a table that is computed once.
Tables ==
    [inv \in InventoryFiles |->
        [sales \in SalesFiles |->
            [n \in 1..unique_days(sales) |-> Pipeline(inv, sales, n)] @@ <<>>] @@ <<>>] @@ <<>>

\* One run of the script (lines 16-205) on the tables inv and sales with n
\* in the number input and one of the pairs of sels in the session's two
\* selections; each bound name is the script's variable.  A run that raises
\* leaves the session's widget values as they are.
Run(inv, sales, n, sels) ==
    IF NumberInputRaises(DefaultDays, unique_days(sales))
    THEN /\ status' = "raised36"
         /\ UNCHANGED <<x, max_value>>
         /\ merged_df' = <<>>
         /\ final_df' = <<>>
         /\ available_cities' = <<>>
         /\ available_products' = <<>>
         /\ view' = "none"
         /\ grouped' = <<>>
         /\ \E sel \in sels :
               /\ selected_cities_raw' = sel[1]
               /\ selected_products_raw' = sel[2]
    ELSE \E tables \in {Tables[inv][sales][n]} :
         \E mdf \in {tables.merged_df} :
         \E fin \in {tables.final_df} :
         \E sel \in sels :
         \E ac \in {AvailableCities(fin, sel[2])} :
         \E ap \in {AvailableProducts(fin, sel[1])} :
             /\ x' = n
             /\ max_value' = unique_days(sales)
             /\ selected_cities_raw' = sel[1]
             /\ selected_products_raw' = sel[2]
             /\ merged_df' = mdf
             /\ final_df' = fin
             /\ available_cities' = ac
             /\ available_products' = ap
             /\ IF MultiselectRaises(sel[1], <<All>> \o ac)
                THEN status' = "raised144" /\ view' = "none" /\ grouped' = <<>>
                ELSE IF MultiselectRaises(sel[2], <<All>> \o ap)
                THEN status' = "raised152" /\ view' = "none" /\ grouped' = <<>>
                ELSE \E sc \in {selected_cities(fin, sel[1])} :
                     \E sp \in {selected_products(fin, sel[2])} :
                     \E rows \in {SlicerRows(fin, sc, sp)} :
                     \E rec \in {Recalculated(rows, n)} :
                         /\ status' = "ok"
                         /\ view' = View(sel[1], sel[2])
                         /\ grouped' = Grouped(View(sel[1], sel[2]), rec, n)

\* Nothing uploaded yet: the body of the script is skipped (line 16).
Init ==
    /\ status = "waiting"
    /\ Inventory_df = NoFile
    /\ Sales_df = NoFile
    /\ x = 0
    /\ max_value = 0
    /\ selected_cities_raw = {}
    /\ selected_products_raw = {}
    /\ merged_df = <<>>
    /\ final_df = <<>>
    /\ available_cities = <<>>
    /\ available_products = <<>>
    /\ view = "none"
    /\ grouped = <<>>

\* The user puts a file, or another file, in the sales uploader (line 13).
UploadSales ==
    \E sales \in SalesFiles \ {Sales_df} :
        /\ Sales_df' = sales
        /\ UNCHANGED Inventory_df
        /\ IF Inventory_df = NoFile
           THEN Waiting
           ELSE Run(Inventory_df, sales, NumberInputValue(unique_days(sales)),
                    {<<selected_cities_raw, selected_products_raw>>})

\* The user puts a file, or another file, in the inventory uploader (line 14).
UploadInventory ==
    \E inv \in InventoryFiles \ {Inventory_df} :
        /\ Inventory_df' = inv
        /\ UNCHANGED Sales_df
        /\ IF Sales_df = NoFile
           THEN Waiting
           ELSE Run(inv, Sales_df, NumberInputValue(unique_days(Sales_df)),
                    {<<selected_cities_raw, selected_products_raw>>})

\* The user takes the file out of the sales uploader.
RemoveSales ==
    /\ Sales_df # NoFile
    /\ Sales_df' = NoFile
    /\ UNCHANGED Inventory_df
    /\ Waiting

\* The user takes the file out of the inventory uploader.
RemoveInventory ==
    /\ Inventory_df # NoFile
    /\ Inventory_df' = NoFile
    /\ UNCHANGED Sales_df
    /\ Waiting

\* The user sets the number of days; the number input is on the page when
\* the last run went past line 36.
SetDays ==
    /\ status \in {"ok", "raised144", "raised152"}
    /\ \E n \in DayChoices(unique_days(Sales_df)) \ {x} :
          Run(Inventory_df, Sales_df, n, {<<selected_cities_raw, selected_products_raw>>})
    /\ UNCHANGED <<Inventory_df, Sales_df>>

\* The selections one click on a multiselect holding sel leads to: an option
\* is added, a selected value is removed, or the selection is cleared.
Clicks(sel, options) ==
    ({sel \cup {o} : o \in options \ sel} \cup {sel \ {o} : o \in sel} \cup {{}}) \ {sel}

\* The user changes the city multiselect, whose options are "All" and the
\* available cities of the last run; the widget is on the page when the
\* last run went past line 144.
SelectCities ==
    /\ status \in {"ok", "raised152"}
    /\ Run(Inventory_df, Sales_df, x,
           {<<cs, selected_products_raw>> :
               cs \in Clicks(selected_cities_raw, {All} \cup Range(available_cities))})
    /\ UNCHANGED <<Inventory_df, Sales_df>>

\* The user changes the product multiselect, on the page when the last run
\* went past line 152.
SelectProducts ==
    /\ status = "ok"
    /\ Run(Inventory_df, Sales_df, x,
           {<<selected_cities_raw, ps>> :
               ps \in Clicks(selected_products_raw, {All} \cup Range(available_products))})
    /\ UNCHANGED <<Inventory_df, Sales_df>>

Next ==
    \/ UploadSales
    \/ UploadInventory
    \/ RemoveSales
    \/ RemoveInventory
    \/ SetDays
    \/ SelectCities
    \/ SelectProducts

Spec == Init /\ [][Next]_vars

----------------------------------------------------------------------------
(* Properties *)

\* The number of rows of df that satisfy P.
Count(df, P(_)) == Cardinality({i \in DOMAIN df : P(df[i])})

\* The last run reached the end of the script.
Ran == status = "ok"

\* The last run went past line 87: it produced merged_df and final_df.
Produced == status \in {"ok", "raised144", "raised152"}

\* The triples (city, item code, product name) of the inventory file.
InventoryTriples ==
    {<<Inventory_df[i].City, Inventory_df[i].SkuCode, Inventory_df[i].SkuDescription>> :
        i \in DOMAIN Inventory_df}

\* The positions of the sales rows inside the window of n days.
InWindow(n) ==
    {j \in DOMAIN Sales_df : Sales_df[j].ORDERED_DATE \in recent_dates(Sales_df, n)}

\* The units sold in the window for the city c and the item k, as uploaded.
WindowUnits(c, k) ==
    SeqSum([j \in DOMAIN Sales_df |->
              IF j \in InWindow(x) /\ Sales_df[j].CITY = c /\ Sales_df[j].ITEM_CODE = k
              THEN Sales_df[j].UNITS_SOLD ELSE 0])

\* C1: the merged table holds every inventory triple exactly once and no
\* other row, also when sales rows of one product and item differ in the
\* letter case of the city only.
C1_EveryInventoryTripleOnce ==
    Produced =>
        /\ \A k \in InventoryTriples :
              Cardinality({i \in DOMAIN merged_df : MergeKey(merged_df[i]) = k}) = 1
        /\ \A i \in DOMAIN merged_df : MergeKey(merged_df[i]) \in InventoryTriples

\* C2: a final row whose city and item have sales rows in the window holds
\* the sum of their units, and DOI = floor(round(warehouse_qty / (units / n), 2)).
C2_UnitsAndDOIFromWindowedSales ==
    Produced =>
        \A i \in DOMAIN final_df :
            WindowUnits(final_df[i].CITY, final_df[i].ITEM_CODE) > 0 =>
                /\ final_df[i].UNITS_SOLD = WindowUnits(final_df[i].CITY, final_df[i].ITEM_CODE)
                /\ final_df[i].DOI =
                       Floor(Round2(final_df[i].WAREHOUSE_QTY,
                                    WindowUnits(final_df[i].CITY, final_df[i].ITEM_CODE), x))

\* C3: in the final table and in every table of the custom view, a row with
\* 0 units sold has DOI 0.
C3_ZeroUnitsZeroDOI ==
    Produced =>
        /\ \A i \in DOMAIN final_df : final_df[i].UNITS_SOLD = 0 => final_df[i].DOI = 0
        /\ \A i \in DOMAIN grouped : grouped[i].UNITS_SOLD = 0 => grouped[i].DOI = 0

\* C3 happens: a grouped view shows a group with stock and no sales, and the
\* final table holds such a row too.
C3_Witness ==
    /\ Ran
    /\ view \in {"by_city", "by_product"}
    /\ \E i \in DOMAIN grouped : grouped[i].UNITS_SOLD = 0 /\ grouped[i].WAREHOUSE_QTY > 0
    /\ \E i \in DOMAIN final_df : final_df[i].UNITS_SOLD = 0 /\ final_df[i].WAREHOUSE_QTY > 0

\* The rows kept for a window of n days.
Kept(n) == filtered_df(Sales_df, recent_dates(Sales_df, n))

\* C4: the rows kept for n1 days are among the rows kept for n2 >= n1 days, a
\* date is kept with all its rows or with none, and with n = |D| every row
\* is kept.
C4_WindowMonotone ==
    Sales_df # NoFile =>
        \A n1 \in 1..unique_days(Sales_df) :
        \A kept1 \in {Kept(n1)} :
            /\ \A n2 \in n1..unique_days(Sales_df) :
               \A kept2 \in {Kept(n2)} :
                  \A j \in DOMAIN Sales_df :
                      Count(kept1, LAMBDA r : r = Sales_df[j])
                          <= Count(kept2, LAMBDA r : r = Sales_df[j])
            /\ \A j \in DOMAIN Sales_df :
                  Count(kept1, LAMBDA r : r.ORDERED_DATE = Sales_df[j].ORDERED_DATE)
                      \in {0, Count(Sales_df, LAMBDA r : r.ORDERED_DATE = Sales_df[j].ORDERED_DATE)}
            /\ n1 = unique_days(Sales_df) => kept1 = Sales_df

\* C4 happens: the window leaves dates out and keeps a date that has two rows.
C4_Witness ==
    /\ Ran
    /\ x < unique_days(Sales_df)
    /\ \E j, k \in InWindow(x) :
          j # k /\ Sales_df[j].ORDERED_DATE = Sales_df[k].ORDERED_DATE

\* The product name holds one of the three terms, in any letter case.
NamesDeniedTerm(name) ==
    \E term \in {gift, celebration, sample} :
        \E off \in 0..(Len(Spell[name]) - Len(term)) :
            \A k \in 1..Len(term) : lower_char[Spell[name][off + k]] = term[k]

\* C5: the final table holds no row with one of the terms, holds every other
\* row of the merged table as often as the merged table does, and the filter
\* removes nothing from it.
C5_ExclusionFilter ==
    Produced =>
        /\ \A i \in DOMAIN final_df : ~NamesDeniedTerm(final_df[i].PRODUCT_NAME)
        /\ \A j \in DOMAIN merged_df :
              ~NamesDeniedTerm(merged_df[j].PRODUCT_NAME) =>
                  Count(final_df, LAMBDA r : r = WithColumnDOI(merged_df[j], Floor(merged_df[j].DOI)))
                      = Count(merged_df, LAMBDA m : m = merged_df[j])
        /\ Len(final_df) = Count(merged_df, LAMBDA m : ~NamesDeniedTerm(m.PRODUCT_NAME))
        /\ ExclusionFilter(final_df) = final_df

\* C5 happens: the merged table holds a Gift Box row with sales and a DOI
\* above 0, and a row that stays.
C5_Witness ==
    /\ Ran
    /\ \E j \in DOMAIN merged_df : merged_df[j].PRODUCT_NAME = GiftBox /\ merged_df[j].DOI > 0
    /\ final_df # <<>>

\* The selection names values (it is not empty and does not hold "All").
Explicit(raw) == raw # {} /\ All \notin raw

\* The output for the two dimensions that count as selected.
Shape(cities, products) ==
    IF ~cities /\ ~products THEN "info"
    ELSE IF cities /\ ~products THEN "by_city"
    ELSE IF products /\ ~cities THEN "by_product"
    ELSE "detail"

\* "All" or nothing selected stands for every value of the final table.
Resolved(raw, universe) == IF raw = {} \/ All \in raw THEN universe ELSE raw

\* The positions of the rows of the final table that pass both selections.
Passing ==
    {i \in DOMAIN final_df :
        /\ final_df[i].CITY \in Resolved(selected_cities_raw, Cities(final_df))
        /\ final_df[i].PRODUCT_NAME \in Resolved(selected_products_raw, Products(final_df))}

\* C6: after any selection changes the output depends on which selections
\* are explicit: the message and no table with none, one row per city with
\* the cities only, one row per product with the products only, the detail
\* rows with both.
C6_ShapeByExplicitSelection ==
    Produced => view = Shape(Explicit(selected_cities_raw), Explicit(selected_products_raw))

\* The columns summed over a group.
Units(r) == r.UNITS_SOLD
Warehouse(r) == r.WAREHOUSE_QTY
OpenPo(r) == r.OPEN_PO_QUANTITY
RowDOI(r) == r.DOI

\* The sum of a column over the passing rows that satisfy InGroup.
PassingSum(InGroup(_), Col(_)) ==
    SeqSum([i \in DOMAIN final_df |->
              IF i \in Passing /\ InGroup(final_df[i]) THEN Col(final_df[i]) ELSE 0])

\* The row g of a grouped view carries the sums over its group and the DOI of
\* the sums.
GroupRowRight(g, InGroup(_)) ==
    /\ g.UNITS_SOLD = PassingSum(InGroup, Units)
    /\ g.WAREHOUSE_QTY = PassingSum(InGroup, Warehouse)
    /\ g.OPEN_PO_QUANTITY = PassingSum(InGroup, OpenPo)
    /\ g.DOI = IF g.UNITS_SOLD = 0 THEN 0
               ELSE Floor(Round2(g.WAREHOUSE_QTY, g.UNITS_SOLD, x))

\* C7: a grouped view has one row per group of passing rows, with the sums
\* of the three quantities and the DOI recomputed from the sums.
C7_GroupedSums ==
    Ran =>
        /\ view = "by_city" =>
              /\ \A i \in Passing : Count(grouped, LAMBDA r : r.CITY = final_df[i].CITY) = 1
              /\ \A g \in DOMAIN grouped :
                    /\ \E i \in Passing : final_df[i].CITY = grouped[g].CITY
                    /\ GroupRowRight(grouped[g], LAMBDA r : r.CITY = grouped[g].CITY)
        /\ view = "by_product" =>
              /\ \A i \in Passing :
                    Count(grouped, LAMBDA r : r.PRODUCT_NAME = final_df[i].PRODUCT_NAME) = 1
              /\ \A g \in DOMAIN grouped :
                    /\ \E i \in Passing : final_df[i].PRODUCT_NAME = grouped[g].PRODUCT_NAME
                    /\ GroupRowRight(grouped[g], LAMBDA r : r.PRODUCT_NAME = grouped[g].PRODUCT_NAME)
        /\ (selected_cities_raw = {MUMBAI} /\ selected_products_raw = {}) =>
              Len(grouped) = 1 /\ grouped[1].CITY = MUMBAI

\* C7 happens: the table by city for the selection {MUMBAI} has one row, made
\* of two rows of the final table, and its DOI is not the sum of theirs.
C7_Witness ==
    /\ Ran
    /\ view = "by_city"
    /\ selected_cities_raw = {MUMBAI}
    /\ Cardinality(Passing) >= 2
    /\ \A i \in Passing : final_df[i].DOI > 0
    /\ grouped[1].DOI # PassingSum(LAMBDA r : TRUE, RowDOI)

\* C8: with both raw selections not empty the view shows the passing rows of
\* the final table, each once and with the DOI it has there.
C8_DetailReusesFinalDOI ==
    (Produced /\ selected_cities_raw # {} /\ selected_products_raw # {}) =>
        grouped = SelectSeq(final_df, LAMBDA r :
                     /\ r.CITY \in Resolved(selected_cities_raw, Cities(final_df))
                     /\ r.PRODUCT_NAME \in Resolved(selected_products_raw, Products(final_df)))

\* C9: the city options are the cities of the rows of the selected products
\* (every city with no product or "All" selected), the product options are
\* the products of the rows of the selected cities, both from the stored
\* selections.
C9_OptionsFromSelection ==
    Produced =>
        /\ Range(available_cities) =
              IF Explicit(selected_products_raw)
              THEN {final_df[i].CITY :
                      i \in {j \in DOMAIN final_df : final_df[j].PRODUCT_NAME \in selected_products_raw}}
              ELSE Cities(final_df)
        /\ Range(available_products) =
              IF Explicit(selected_cities_raw)
              THEN {final_df[i].PRODUCT_NAME :
                      i \in {j \in DOMAIN final_df : final_df[j].CITY \in selected_cities_raw}}
              ELSE Products(final_df)

\* C9 happens: the selected products narrow the city options.
C9_Witness ==
    /\ Ran
    /\ Explicit(selected_products_raw)
    /\ available_cities # <<>>
    /\ Range(available_cities) # Cities(final_df)

\* C10: with both files uploaded the run reaches the final table and its
\* number of days is in 1..|D|, also with fewer than 7 dates and the default.
C10_DefaultDaysValid ==
    (Sales_df # NoFile /\ Inventory_df # NoFile /\ unique_days(Sales_df) >= 1) =>
        /\ Produced
        /\ x \in 1..unique_days(Sales_df)

====
